---- MODULE Spec2Model ----
(***************************************************************************)
(* Model of controllers/flinksessioncluster_updater.go: the status updater *)
(* of the FlinkSessionCluster controller.  One reconciliation pass takes a *)
(* snapshot of the cluster resource and its components (observedState),    *)
(* derives a status from the components, compares it with the status       *)
(* recorded on the cluster and updates the cluster when they differ.       *)
(*                                                                         *)
(* A Go pointer is a sequence of length at most one: Nil is <<>>, a        *)
(* pointer to x is <<x>>.  A Go string is a TLA+ string, the zero value "".*)
(* LastUpdateTime is a number of seconds, 0 standing for the empty string. *)
(***************************************************************************)
EXTENDS Naturals, Sequences, FiniteSets

VARIABLES
    stored,         \* the FlinkSessionCluster held by the API server: Nil once deleted
    components,     \* the components as they are in the API server
    changes,        \* the number of changes the components went through
    observedState,  \* updater.observedState, the snapshot of the current pass
    pc,             \* "idle" | "observed" | "returned": position of the pass
    result,         \* what updateClusterStatusIfChanged returned: "nil", an error, or "panic"
    path,           \* the stages of updateClusterStatusIfChanged the pass went through
    updateCalls,    \* the k8sClient.Update calls of the pass, in order
    currentStatus,  \* local currentStatus of the pass (Nil before it is assigned)
    newStatus,      \* local newStatus of the pass (Nil before it is assigned)
    changed         \* what isStatusChanged returned in the pass ("none": not called)

vars == <<stored, components, changes, observedState, pc, result, path,
          updateCalls, currentStatus, newStatus, changed>>

----------------------------------------------------------------------------
(* Bounds *)

\* The largest Status.Replicas of a deployment.
MaxReplicas == 1

\* The largest number of pods a job has had.
MaxPods == 1

\* The latest second time.Now() returns.
MaxTime == 2

\* The largest resource version the API server hands out.
MaxVersion == 3

\* The number of changes the components go through.
MaxChanges == 5

----------------------------------------------------------------------------
(* Go values *)

Nil == <<>>

Ptr(x) == <<x>>

Deref(p) == p[1]

EmptyTime == 0

ClusterState == [Reconciling |-> "Reconciling", Running |-> "Running"]

ClusterComponentState == [NotReady |-> "NotReady", Ready |-> "Ready"]

JobState == [Running |-> "Running", Failed |-> "Failed",
             Succeeded |-> "Succeeded", Unknown |-> "Unknown"]

\* The zero value of a component slot (a struct held by value, never a pointer).
ZeroComponent == [Name |-> "", State |-> ""]

\* flinkoperatorv1alpha1.FlinkSessionClusterStatus{}
ZeroStatus ==
    [State |-> "",
     Components |-> [JobManagerDeployment |-> ZeroComponent,
                     JobManagerService |-> ZeroComponent,
                     TaskManagerDeployment |-> ZeroComponent,
                     Job |-> Nil],
     LastUpdateTime |-> EmptyTime]

----------------------------------------------------------------------------
(* deriveClusterStatus *)

\* Variant of DeploymentNotReady: only the available replicas are looked at.
DeploymentNotReadyAvailableOnly(d) ==
    d.AvailableReplicas < d.Replicas

\* The readiness test of a deployment: fewer available or fewer ready
\* replicas than Status.Replicas.
DeploymentNotReady(d) ==
    \/ d.AvailableReplicas < d.Replicas
    \/ d.ReadyReplicas < d.Replicas

\* The slot derived from an observed deployment and what it adds to
\* readyComponents.
DeriveDeployment(p) ==
    IF p # Nil
    THEN IF DeploymentNotReady(Deref(p))
         THEN [slot |-> [Name |-> Deref(p).Name,
                         State |-> ClusterComponentState.NotReady],
               ready |-> 0]
         ELSE [slot |-> [Name |-> Deref(p).Name,
                         State |-> ClusterComponentState.Ready],
               ready |-> 1]
    ELSE [slot |-> ZeroComponent, ready |-> 0]

\* Variant of DeriveService: an absent service is counted as ready.
DeriveServiceAbsentReady(p) ==
    IF p # Nil
    THEN [slot |-> [Name |-> Deref(p).Name,
                    State |-> ClusterComponentState.Ready],
          ready |-> 1]
    ELSE [slot |-> ZeroComponent, ready |-> 1]

\* The slot derived from the observed JobManager service.
DeriveService(p) ==
    IF p # Nil
    THEN [slot |-> [Name |-> Deref(p).Name,
                    State |-> ClusterComponentState.Ready],
          ready |-> 1]
    ELSE [slot |-> ZeroComponent, ready |-> 0]

\* Variant of DeriveJobState: the failed pods are looked at first.
DeriveJobStateFailedFirst(j) ==
    IF j.Failed > 0 THEN JobState.Failed
    ELSE IF j.Active > 0 THEN JobState.Running
    ELSE IF j.Succeeded > 0 THEN JobState.Succeeded
    ELSE JobState.Unknown

\* The state derived from the counters of an observed job.
DeriveJobState(j) ==
    IF j.Active > 0 THEN JobState.Running
    ELSE IF j.Failed > 0 THEN JobState.Failed
    ELSE IF j.Succeeded > 0 THEN JobState.Succeeded
    ELSE JobState.Unknown

\* status.Components.Job: a new JobStatus when a job is observed, else nil.
DeriveJob(p) ==
    IF p # Nil
    THEN Ptr([Name |-> Deref(p).Name, State |-> DeriveJobState(Deref(p))])
    ELSE Nil

\* Variant of DeriveState: the tally is compared with 2.
DeriveStateOffByOne(readyComponents) ==
    IF readyComponents < 2
    THEN ClusterState.Reconciling
    ELSE ClusterState.Running

\* status.State from the number of ready components.
DeriveState(readyComponents) ==
    IF readyComponents < 3
    THEN ClusterState.Reconciling
    ELSE ClusterState.Running

\* Variant of deriveClusterStatus: a running job is counted among the ready
\* components.
deriveClusterStatusCountsJob(obs) ==
    LET jm == DeriveDeployment(obs.jmDeployment)
        svc == DeriveService(obs.jmService)
        tm == DeriveDeployment(obs.tmDeployment)
        job == DeriveJob(obs.job)
        readyComponents ==
            jm.ready + svc.ready + tm.ready
            + (IF job # Nil /\ Deref(job).State = JobState.Running THEN 1 ELSE 0)
    IN  [State |-> DeriveState(readyComponents),
         Components |-> [JobManagerDeployment |-> jm.slot,
                         JobManagerService |-> svc.slot,
                         TaskManagerDeployment |-> tm.slot,
                         Job |-> job],
         LastUpdateTime |-> EmptyTime]

deriveClusterStatus(obs) ==
    LET jm == DeriveDeployment(obs.jmDeployment)
        svc == DeriveService(obs.jmService)
        tm == DeriveDeployment(obs.tmDeployment)
        readyComponents == jm.ready + svc.ready + tm.ready
    IN  [State |-> DeriveState(readyComponents),
         Components |-> [JobManagerDeployment |-> jm.slot,
                         JobManagerService |-> svc.slot,
                         TaskManagerDeployment |-> tm.slot,
                         Job |-> DeriveJob(obs.job)],
         LastUpdateTime |-> EmptyTime]

----------------------------------------------------------------------------
(* isStatusChanged *)

\* Variant of JobChanged: the two Job pointers are compared, not what they
\* point to.
JobChangedByPointer(cur, new) ==
    IF cur.Components.Job = Nil /\ new.Components.Job = Nil
    THEN "false"
    ELSE "true"

\* The comparison of the job slots.  Dereferencing the nil Job of newStatus
\* is a nil pointer dereference: the Go runtime panics.
JobChanged(cur, new) ==
    IF cur.Components.Job = Nil
    THEN IF new.Components.Job # Nil THEN "true" ELSE "false"
    ELSE IF new.Components.Job = Nil
         THEN "panic"
         ELSE IF Deref(new.Components.Job) # Deref(cur.Components.Job)
              THEN "true"
              ELSE "false"

\* Variant of FieldsChanged: LastUpdateTime is compared as well.
FieldsChangedWithTime(cur, new) ==
    \/ new.State # cur.State
    \/ new.Components.JobManagerDeployment # cur.Components.JobManagerDeployment
    \/ new.Components.JobManagerService # cur.Components.JobManagerService
    \/ new.Components.TaskManagerDeployment # cur.Components.TaskManagerDeployment
    \/ new.LastUpdateTime # cur.LastUpdateTime

\* The comparisons made before the job slots are looked at.
FieldsChanged(cur, new) ==
    \/ new.State # cur.State
    \/ new.Components.JobManagerDeployment # cur.Components.JobManagerDeployment
    \/ new.Components.JobManagerService # cur.Components.JobManagerService
    \/ new.Components.TaskManagerDeployment # cur.Components.TaskManagerDeployment

\* "true" | "false": the value returned; "panic": the call does not return.
isStatusChanged(cur, new) ==
    IF JobChanged(cur, new) = "panic" THEN "panic"
    ELSE IF FieldsChanged(cur, new) \/ JobChanged(cur, new) = "true"
         THEN "true"
         ELSE "false"

----------------------------------------------------------------------------
(* The API server *)

JmDeploymentName == "jm-deployment"

JmServiceName == "jm-service"

TmDeploymentName == "tm-deployment"

JobName == "job"

Min(a, b) == IF a < b THEN a ELSE b

\* A deployment as the API server reports it: of Status.Replicas pods some
\* are ready, and of the ready ones some are available.
Deployments(name) ==
    {d \in [Name : {name}, Replicas : 0..MaxReplicas,
            AvailableReplicas : 0..MaxReplicas, ReadyReplicas : 0..MaxReplicas] :
        d.AvailableReplicas <= d.ReadyReplicas /\ d.ReadyReplicas <= d.Replicas}

\* A job as the API server reports it: each of its pods is active, has
\* failed or has succeeded.
Jobs(name) ==
    {j \in [Name : {name}, Active : 0..MaxPods, Failed : 0..MaxPods,
            Succeeded : 0..MaxPods] :
        j.Active + j.Failed + j.Succeeded <= MaxPods}

\* One change of a deployment: it is created (no pod yet) or deleted, a pod
\* is added, becomes ready, becomes available or stops being ready.
DeploymentSteps(p, name) ==
    IF p = Nil
    THEN {Ptr([Name |-> name, Replicas |-> 0, AvailableReplicas |-> 0,
               ReadyReplicas |-> 0])}
    ELSE {Nil} \cup
         {Ptr(d) : d \in {e \in Deployments(name) :
            \/ /\ e.Replicas = Deref(p).Replicas + 1
               /\ e.ReadyReplicas = Deref(p).ReadyReplicas
               /\ e.AvailableReplicas = Deref(p).AvailableReplicas
            \/ /\ e.Replicas = Deref(p).Replicas
               /\ e.ReadyReplicas = Deref(p).ReadyReplicas + 1
               /\ e.AvailableReplicas = Deref(p).AvailableReplicas
            \/ /\ e.Replicas = Deref(p).Replicas
               /\ e.ReadyReplicas = Deref(p).ReadyReplicas
               /\ e.AvailableReplicas = Deref(p).AvailableReplicas + 1
            \/ /\ e.Replicas = Deref(p).Replicas
               /\ e.ReadyReplicas + 1 = Deref(p).ReadyReplicas
               /\ e.AvailableReplicas =
                    Min(Deref(p).AvailableReplicas, e.ReadyReplicas)}}

\* One change of the service: it is created or deleted.
ServiceSteps(p, name) ==
    IF p = Nil THEN {Ptr([Name |-> name])} ELSE {Nil}

\* One change of a job: it is created (no pod yet) or deleted, a pod starts,
\* or an active pod fails or succeeds.
JobSteps(p, name) ==
    IF p = Nil
    THEN {Ptr([Name |-> name, Active |-> 0, Failed |-> 0, Succeeded |-> 0])}
    ELSE {Nil} \cup
         {Ptr(j) : j \in {k \in Jobs(name) :
            \/ /\ k.Active = Deref(p).Active + 1
               /\ k.Failed = Deref(p).Failed
               /\ k.Succeeded = Deref(p).Succeeded
            \/ /\ k.Active + 1 = Deref(p).Active
               /\ k.Failed = Deref(p).Failed + 1
               /\ k.Succeeded = Deref(p).Succeeded
            \/ /\ k.Active + 1 = Deref(p).Active
               /\ k.Failed = Deref(p).Failed
               /\ k.Succeeded = Deref(p).Succeeded + 1}}

\* The outcome of k8sClient.Update(obj) on the stored cluster st: the error
\* returned ("nil": none) and the cluster stored afterwards.  The update is
\* refused when the cluster is gone or when obj does not carry the stored
\* resource version; a request can also fail on its way (no write happens).
UpdateOutcomes(st, obj) ==
    IF st = Nil
    THEN {[err |-> "NotFound", stored |-> st]}
    ELSE IF obj.ResourceVersion # Deref(st).ResourceVersion
         THEN {[err |-> "Conflict", stored |-> st]}
         ELSE {[err |-> "nil",
                stored |-> Ptr([obj EXCEPT !.ResourceVersion = @ + 1])],
               [err |-> "Failure", stored |-> st]}

----------------------------------------------------------------------------
(* The pass *)

\* The seconds time.Now() can show, formatted: never the empty string.
Times == 1..MaxTime

\* The zero value of _ObservedClusterState.
NoObservation ==
    [cluster |-> Nil, jmDeployment |-> Nil, jmService |-> Nil,
     tmDeployment |-> Nil, job |-> Nil]

ClusterName == "cluster"

ClusterNamespace == "default"

\* The cluster as the user created it: no status recorded yet.
NewCluster ==
    [Name |-> ClusterName, Namespace |-> ClusterNamespace,
     ResourceVersion |-> 1, Generation |-> 1,
     Spec |-> [Revision |-> 1], Status |-> ZeroStatus]

\* Variant of updateClusterStatus: the object is built anew from the name
\* and version of the observed cluster; its spec is not copied.
updateClusterStatusNoCopy(obs, status) ==
    [Name |-> Deref(obs.cluster).Name,
     Namespace |-> Deref(obs.cluster).Namespace,
     ResourceVersion |-> Deref(obs.cluster).ResourceVersion,
     Generation |-> Deref(obs.cluster).Generation,
     Spec |-> [Revision |-> 0],
     Status |-> status]

\* Variant of updateClusterStatus: the recorded job entry is kept, the rest
\* of the status is replaced.
updateClusterStatusKeepsJob(obs, status) ==
    [Deref(obs.cluster) EXCEPT
        !.Status = [status EXCEPT
            !.Components.Job = Deref(obs.cluster).Status.Components.Job]]

\* The object updateClusterStatus sends: a deep copy of the observed
\* cluster with its Status replaced.
updateClusterStatus(obs, status) ==
    [Deref(obs.cluster) EXCEPT !.Status = status]

\* The deep copy of the recorded status with LastUpdateTime cleared.
CurrentStatus(obs) ==
    [Deref(obs.cluster).Status EXCEPT !.LastUpdateTime = EmptyTime]

Init ==
    /\ stored = Ptr(NewCluster)
    /\ components = [jmDeployment |-> Nil, jmService |-> Nil,
                     tmDeployment |-> Nil, job |-> Nil]
    /\ changes = 0
    /\ observedState = NoObservation
    /\ pc = "idle"
    /\ result = "none"
    /\ path = <<>>
    /\ updateCalls = <<>>
    /\ currentStatus = Nil
    /\ newStatus = Nil
    /\ changed = "none"

\* The observer fills the snapshot of a pass from the API server.
Observe ==
    /\ pc = "idle"
    /\ observedState' = [cluster |-> stored,
                         jmDeployment |-> components.jmDeployment,
                         jmService |-> components.jmService,
                         tmDeployment |-> components.tmDeployment,
                         job |-> components.job]
    /\ pc' = "observed"
    /\ UNCHANGED <<stored, components, changes, result, path, updateCalls,
                   currentStatus, newStatus, changed>>

\* Variant of ReturnedError: the error of Update is dropped.
ReturnedErrorSwallowed(err) == "nil"

\* Variant of ReturnedError: "not found" is ignored.
ReturnedErrorIgnoreNotFound(err) == IF err = "NotFound" THEN "nil" ELSE err

\* The error updateClusterStatus, and then updateClusterStatusIfChanged,
\* hands back when k8sClient.Update returned err.
ReturnedError(err) == err

\* The k8sClient.Update calls made for one object: the object sent and the
\* error the API server answered.
CallsSent(obj, err) == <<[obj |-> obj, err |-> err]>>

\* Variant of DeletedOutcome: the absent cluster is reported as an error.
DeletedOutcomeError(obs, st) ==
    [result |-> "NotFound", path |-> <<"Start", "Failed">>, updateCalls |-> <<>>,
     currentStatus |-> Nil, newStatus |-> Nil, changed |-> "none",
     stored |-> st]

\* The cluster is absent from the snapshot: nothing is derived or compared.
DeletedOutcome(obs, st) ==
    [result |-> "nil", path |-> <<"Start", "Done">>, updateCalls |-> <<>>,
     currentStatus |-> Nil, newStatus |-> Nil, changed |-> "none",
     stored |-> st]

\* isStatusChanged dereferenced a nil job: the call never returns.
PanicOutcome(obs, cur, new, st) ==
    [result |-> "panic", path |-> <<"Start", "Derive", "Compare">>,
     updateCalls |-> <<>>, currentStatus |-> Ptr(cur), newStatus |-> Ptr(new),
     changed |-> "panic", stored |-> st]

\* Variant of NoChangeOutcome: the status is sent although nothing changed.
NoChangeOutcomeUpdates(obs, cur, new, st) ==
    [result |-> "nil", path |-> <<"Start", "Derive", "Compare", "Done">>,
     updateCalls |-> CallsSent(updateClusterStatus(obs, new), "nil"),
     currentStatus |-> Ptr(cur), newStatus |-> Ptr(new),
     changed |-> "false", stored |-> st]

\* isStatusChanged returned false: "No status change".
NoChangeOutcome(obs, cur, new, st) ==
    [result |-> "nil", path |-> <<"Start", "Derive", "Compare", "Done">>,
     updateCalls |-> <<>>, currentStatus |-> Ptr(cur), newStatus |-> Ptr(new),
     changed |-> "false", stored |-> st]

\* Variant of ChangedOutcomes: the cluster is read again from the API server
\* before the status is set on it and sent.
ChangedOutcomesRefetch(obs, cur, new, st) ==
    UNION {
      {[result |-> ReturnedError(out.err),
        path |-> <<"Start", "Derive", "Compare", "Persist",
                   IF ReturnedError(out.err) = "nil" THEN "Done" ELSE "Failed">>,
        updateCalls |-> CallsSent(
            [Deref(IF st = Nil THEN obs.cluster ELSE st)
                EXCEPT !.Status = [new EXCEPT !.LastUpdateTime = now]], out.err),
        currentStatus |-> Ptr(cur),
        newStatus |-> Ptr([new EXCEPT !.LastUpdateTime = now]),
        changed |-> "true",
        stored |-> out.stored] :
          out \in UpdateOutcomes(st,
              [Deref(IF st = Nil THEN obs.cluster ELSE st)
                  EXCEPT !.Status = [new EXCEPT !.LastUpdateTime = now]])} :
      now \in Times}

\* isStatusChanged returned true: newStatus is stamped with the time and
\* sent; what Update answers is what the call returns.
ChangedOutcomes(obs, cur, new, st) ==
    UNION {
      {[result |-> ReturnedError(out.err),
        path |-> <<"Start", "Derive", "Compare", "Persist",
                   IF ReturnedError(out.err) = "nil" THEN "Done" ELSE "Failed">>,
        updateCalls |-> CallsSent(
            updateClusterStatus(obs, [new EXCEPT !.LastUpdateTime = now]), out.err),
        currentStatus |-> Ptr(cur),
        newStatus |-> Ptr([new EXCEPT !.LastUpdateTime = now]),
        changed |-> "true",
        stored |-> out.stored] :
          out \in UpdateOutcomes(st,
              updateClusterStatus(obs, [new EXCEPT !.LastUpdateTime = now]))} :
      now \in Times}

\* Variant of ObservedAfter: LastUpdateTime is cleared on the status of the
\* observed cluster itself, not on a copy of it.
ObservedAfterClearedInPlace(obs) ==
    IF obs.cluster = Nil
    THEN obs
    ELSE [obs EXCEPT !.cluster =
            Ptr([Deref(obs.cluster) EXCEPT !.Status.LastUpdateTime = EmptyTime])]

\* updater.observedState after the call.  The recorded status is cleared of
\* its time on a deep copy and the object sent is a deep copy too: nothing
\* is assigned through the snapshot.
ObservedAfter(obs) == obs

\* Every way one call of updateClusterStatusIfChanged on the snapshot obs
\* can end, the API server holding st.
Outcomes(obs, st) ==
    IF obs.cluster = Nil
    THEN {DeletedOutcome(obs, st)}
    ELSE LET cur == CurrentStatus(obs)
             new == deriveClusterStatus(obs)
             chg == isStatusChanged(cur, new)
         IN  CASE chg = "panic" -> {PanicOutcome(obs, cur, new, st)}
               [] chg = "false" -> {NoChangeOutcome(obs, cur, new, st)}
               [] chg = "true" -> ChangedOutcomes(obs, cur, new, st)

\* One call of updateClusterStatusIfChanged on the snapshot, from its first
\* statement to its return (or to the panic that ends it).
updateClusterStatusIfChanged ==
    /\ pc = "observed"
    /\ \E o \in Outcomes(observedState, stored) :
         /\ o.stored # stored => Deref(stored).ResourceVersion < MaxVersion
         /\ stored' = o.stored
         /\ result' = o.result
         /\ path' = o.path
         /\ updateCalls' = o.updateCalls
         /\ currentStatus' = o.currentStatus
         /\ newStatus' = o.newStatus
         /\ changed' = o.changed
         /\ pc' = IF o.result = "panic" THEN "panicked" ELSE "returned"
    /\ observedState' = ObservedAfter(observedState)
    /\ UNCHANGED <<components, changes>>

\* The pass is over: the controller returns to its queue (after a panic, the
\* process starts again); nothing of the pass is kept.
EndPass ==
    /\ pc \in {"returned", "panicked"}
    /\ pc' = "idle"
    /\ observedState' = NoObservation
    /\ result' = "none"
    /\ path' = <<>>
    /\ updateCalls' = <<>>
    /\ currentStatus' = Nil
    /\ newStatus' = Nil
    /\ changed' = "none"
    /\ UNCHANGED <<stored, components, changes>>

\* Someone else updates the cluster (its spec) in the API server.
ModifyCluster ==
    /\ pc \in {"idle", "observed"}
    /\ stored # Nil
    /\ Deref(stored).ResourceVersion < MaxVersion
    /\ stored' = Ptr([Deref(stored) EXCEPT !.ResourceVersion = @ + 1,
                                           !.Generation = @ + 1,
                                           !.Spec.Revision = @ + 1])
    /\ UNCHANGED <<components, changes, observedState, pc, result, path,
                   updateCalls, currentStatus, newStatus, changed>>

\* The user deletes the cluster.
DeleteCluster ==
    /\ pc \in {"idle", "observed"}
    /\ stored # Nil
    /\ stored' = Nil
    /\ UNCHANGED <<components, changes, observedState, pc, result, path,
                   updateCalls, currentStatus, newStatus, changed>>

\* One of the components changes in the API server.
ComponentChange ==
    /\ pc = "idle"
    /\ changes < MaxChanges
    /\ changes' = changes + 1
    /\ \/ \E d \in DeploymentSteps(components.jmDeployment, JmDeploymentName) :
            components' = [components EXCEPT !.jmDeployment = d]
       \/ \E v \in ServiceSteps(components.jmService, JmServiceName) :
            components' = [components EXCEPT !.jmService = v]
       \/ \E d \in DeploymentSteps(components.tmDeployment, TmDeploymentName) :
            components' = [components EXCEPT !.tmDeployment = d]
       \/ \E j \in JobSteps(components.job, JobName) :
            components' = [components EXCEPT !.job = j]
    /\ UNCHANGED <<stored, observedState, pc, result, path, updateCalls,
                   currentStatus, newStatus, changed>>

Next ==
    \/ Observe
    \/ updateClusterStatusIfChanged
    \/ EndPass
    \/ ModifyCluster
    \/ DeleteCluster
    \/ ComponentChange

Spec == Init /\ [][Next]_vars

\* A call whose Update succeeded.
SuccessfulUpdate ==
    /\ updateClusterStatusIfChanged
    /\ updateCalls' # <<>>
    /\ result' = "nil"

\* The passes of one cluster follow one another, each on a fresh snapshot,
\* and an Update that is tried again and again succeeds in the end.
FairSpec ==
    /\ Spec
    /\ WF_vars(Observe)
    /\ WF_vars(updateClusterStatusIfChanged)
    /\ WF_vars(EndPass)
    /\ SF_vars(SuccessfulUpdate)

----------------------------------------------------------------------------
(* deriveClusterStatus on its own: every snapshot within the bounds *)

\* Every value the counters of a deployment can hold.
AnyDeployments(name) ==
    [Name : {name}, Replicas : 0..MaxReplicas,
     AvailableReplicas : 0..MaxReplicas, ReadyReplicas : 0..MaxReplicas]

\* Every value the counters of a job can hold.
AnyJobs(name) ==
    [Name : {name}, Active : 0..MaxPods, Failed : 0..MaxPods,
     Succeeded : 0..MaxPods]

Pointers(S) == {Nil} \cup {Ptr(x) : x \in S}

AnyObservations ==
    [cluster : {Ptr(NewCluster)},
     jmDeployment : Pointers(AnyDeployments(JmDeploymentName)),
     jmService : Pointers([Name : {JmServiceName}]),
     tmDeployment : Pointers(AnyDeployments(TmDeploymentName)),
     job : Pointers(AnyJobs(JobName))]

InitDerive ==
    /\ observedState \in AnyObservations
    /\ stored = Ptr(NewCluster)
    /\ components = [jmDeployment |-> observedState.jmDeployment,
                     jmService |-> observedState.jmService,
                     tmDeployment |-> observedState.tmDeployment,
                     job |-> observedState.job]
    /\ changes = 0
    /\ pc = "observed"
    /\ result = "none"
    /\ path = <<>>
    /\ updateCalls = <<>>
    /\ currentStatus = Nil
    /\ newStatus = Nil
    /\ changed = "none"

\* A call of deriveClusterStatus on the snapshot.
Derive ==
    /\ pc = "observed"
    /\ newStatus' = Ptr(deriveClusterStatus(observedState))
    /\ pc' = "derived"
    /\ UNCHANGED <<stored, components, changes, observedState, result, path,
                   updateCalls, currentStatus, changed>>

NextDerive == Derive

SpecDerive == InitDerive /\ [][NextDerive]_vars

----------------------------------------------------------------------------
(* isStatusChanged on its own: pairs of statuses *)

\* The names a recorded slot can carry: the component's and, after the
\* component was created anew, another.
SlotNames == {"a", "b"}

ComponentSlots(names) ==
    {ZeroComponent} \cup
    [Name : names, State : {ClusterComponentState.NotReady,
                            ClusterComponentState.Ready}]

JobSlots(names) ==
    Pointers([Name : names, State : {JobState.Running, JobState.Failed}])

Statuses ==
    [State : {"", ClusterState.Reconciling, ClusterState.Running},
     Components : [JobManagerDeployment : ComponentSlots(SlotNames),
                   JobManagerService : {ZeroComponent,
                                        [Name |-> "a",
                                         State |-> ClusterComponentState.Ready]},
                   TaskManagerDeployment : ComponentSlots({"a"}),
                   Job : JobSlots(SlotNames)],
     LastUpdateTime : 0..MaxTime]

InitChanged ==
    /\ \E cur \in Statuses, new \in Statuses :
         /\ currentStatus = Ptr(cur)
         /\ newStatus = Ptr(new)
    /\ stored = Nil
    /\ components = [jmDeployment |-> Nil, jmService |-> Nil,
                     tmDeployment |-> Nil, job |-> Nil]
    /\ changes = 0
    /\ observedState = NoObservation
    /\ pc = "statuses"
    /\ result = "none"
    /\ path = <<>>
    /\ updateCalls = <<>>
    /\ changed = "none"

\* A call of isStatusChanged on the two statuses.
Compare ==
    /\ pc = "statuses"
    /\ changed' = isStatusChanged(Deref(currentStatus), Deref(newStatus))
    /\ pc' = "compared"
    /\ UNCHANGED <<stored, components, changes, observedState, result, path,
                   updateCalls, currentStatus, newStatus>>

NextChanged == Compare

SpecChanged == InitChanged /\ [][NextChanged]_vars

----------------------------------------------------------------------------
(* Properties *)

\* The call of updateClusterStatusIfChanged of the pass is over.
Ended == pc \in {"returned", "panicked"}

\* Two statuses agree in every field other than LastUpdateTime.
SameButTime(a, b) ==
    [a EXCEPT !.LastUpdateTime = EmptyTime] = [b EXCEPT !.LastUpdateTime = EmptyTime]

\* The status recorded on the cluster of the snapshot.
Recorded == Deref(observedState.cluster).Status

\* C1: when the cluster is in the snapshot and the status recorded on it
\* equals the status derived from the snapshot in every field other than
\* LastUpdateTime, the call makes no Update call and returns nil.
C1_Idempotent ==
    (/\ Ended
     /\ observedState.cluster # Nil
     /\ SameButTime(Recorded, deriveClusterStatus(observedState)))
    => (updateCalls = <<>> /\ result = "nil")

\* A later pass over unchanged components, a job among them, after a pass
\* that wrote the status: it ends without an Update call.
C1_Witness ==
    /\ pc = "returned"
    /\ observedState.cluster # Nil
    /\ SameButTime(Recorded, deriveClusterStatus(observedState))
    /\ Recorded.LastUpdateTime # EmptyTime
    /\ observedState.job # Nil
    /\ updateCalls = <<>>
    /\ result = "nil"

\* C2: when the cluster is absent from the snapshot, whatever components
\* the snapshot holds, the call makes no Update call, derives and compares
\* nothing and returns nil.
C2_DeletedShortCircuit ==
    (Ended /\ observedState.cluster = Nil)
    => /\ updateCalls = <<>>
       /\ result = "nil"
       /\ path = <<"Start", "Done">>
       /\ currentStatus = Nil
       /\ newStatus = Nil
       /\ changed = "none"

\* A pass on a snapshot without the cluster but with components that would
\* derive a status has returned.
C2_Witness ==
    /\ pc = "returned"
    /\ observedState.cluster = Nil
    /\ observedState.jmDeployment # Nil
    /\ observedState.jmService # Nil
    /\ observedState.job # Nil
    /\ result = "nil"

\* C3: the state deriveClusterStatus gives is Running exactly when the
\* JobManager deployment, the JobManager service and the TaskManager
\* deployment are all in the snapshot and each of their slots is Ready;
\* otherwise it is Reconciling.
C3_ReadinessThreshold ==
    pc = "derived" =>
      LET st == Deref(newStatus)
          allReady ==
            /\ observedState.jmDeployment # Nil
            /\ observedState.jmService # Nil
            /\ observedState.tmDeployment # Nil
            /\ st.Components.JobManagerDeployment.State = "Ready"
            /\ st.Components.JobManagerService.State = "Ready"
            /\ st.Components.TaskManagerDeployment.State = "Ready"
      IN  /\ st.State = "Running" <=> allReady
          /\ st.State = "Reconciling" <=> ~allReady

\* A snapshot whose three mandatory components have all their replicas
\* available and ready was derived Running.
C3_Witness ==
    /\ pc = "derived"
    /\ Deref(newStatus).State = "Running"
    /\ observedState.jmDeployment # Nil
    /\ Deref(observedState.jmDeployment).Replicas = MaxReplicas
    /\ Deref(observedState.tmDeployment).ReadyReplicas = MaxReplicas

\* C4: every call ends Done (nil returned) or Failed (the error of Update
\* returned), along Start, Derive, Compare, Persist, also when the recorded
\* status has a job and the snapshot has none.
C4_EndsDoneOrFailed ==
    Ended =>
      /\ path \in {<<"Start", "Done">>,
                   <<"Start", "Derive", "Compare", "Done">>,
                   <<"Start", "Derive", "Compare", "Persist", "Done">>,
                   <<"Start", "Derive", "Compare", "Persist", "Failed">>}
      /\ path[Len(path)] = "Done" => result = "nil"
      /\ path[Len(path)] = "Failed" => result \in {"Conflict", "NotFound", "Failure"}

\* The two statuses agree in State and in the three mandatory slots.
OtherFieldsEqual(a, b) ==
    /\ a.State = b.State
    /\ a.Components.JobManagerDeployment = b.Components.JobManagerDeployment
    /\ a.Components.JobManagerService = b.Components.JobManagerService
    /\ a.Components.TaskManagerDeployment = b.Components.TaskManagerDeployment

\* C5: the job slots make isStatusChanged answer: unchanged when both are
\* absent; changed when exactly one is absent; when both are present,
\* changed exactly when they differ in name or state.
C5_JobThreeWay ==
    (/\ Ended
     /\ currentStatus # Nil
     /\ OtherFieldsEqual(Deref(currentStatus), Deref(newStatus)))
    => LET cj == Deref(currentStatus).Components.Job
           nj == Deref(newStatus).Components.Job
       IN  changed =
             IF cj = Nil /\ nj = Nil THEN "false"
             ELSE IF cj = Nil \/ nj = Nil THEN "true"
             ELSE IF Deref(cj).Name # Deref(nj).Name \/ Deref(cj).State # Deref(nj).State
                  THEN "true"
                  ELSE "false"

\* C6: an Update call made from a snapshot whose resource version is no
\* longer the stored one is answered with a conflict, leaves the stored
\* cluster as it is, and the conflict is what the call returns.
C6_StaleWriteRefused ==
    [][(/\ pc = "observed"
        /\ pc' # "observed"
        /\ stored # Nil
        /\ observedState.cluster # Nil
        /\ Deref(stored).ResourceVersion # Deref(observedState.cluster).ResourceVersion
        /\ updateCalls' # <<>>)
       => (/\ updateCalls'[1].err = "Conflict"
           /\ result' = "Conflict"
           /\ stored' = stored)]_vars

\* A pass whose snapshot was taken before the cluster was modified has sent
\* its status and got the conflict back.
C6_Witness ==
    /\ pc = "returned"
    /\ result = "Conflict"
    /\ updateCalls # <<>>
    /\ stored # Nil
    /\ Deref(stored).ResourceVersion > Deref(observedState.cluster).ResourceVersion
    /\ Deref(stored).Status # updateCalls[1].obj.Status

\* C7: a call makes at most one Update call, and makes one exactly when the
\* cluster is in the snapshot and isStatusChanged answered true.
C7_AtMostOneUpdate ==
    Ended =>
      /\ Len(updateCalls) <= 1
      /\ Len(updateCalls) = 1 <=> (observedState.cluster # Nil /\ changed = "true")

\* The recorded TaskManager slot is unset and the derived one is NotReady:
\* one Update call was made.
C7_Witness ==
    /\ pc = "returned"
    /\ Len(updateCalls) = 1
    /\ Recorded.Components.TaskManagerDeployment = ZeroComponent
    /\ Deref(newStatus).Components.TaskManagerDeployment.State = "NotReady"

\* C8: whatever error the Update call answers is what the call of
\* updateClusterStatusIfChanged returns, and Update is not called again.
C8_FailureReturned ==
    (Ended /\ updateCalls # <<>>)
    => /\ Len(updateCalls) = 1
       /\ result = updateCalls[1].err

\* An Update call failed on its way and the failure was returned.
C8_Witness ==
    /\ pc = "returned"
    /\ Len(updateCalls) = 1
    /\ updateCalls[1].err = "Failure"
    /\ result = "Failure"

\* C9 as stated: when Update answers "not found", the call returns nil.
C9_NotFoundIsNoOp ==
    (Ended /\ updateCalls # <<>> /\ updateCalls[1].err = "NotFound")
    => result = "nil"

\* C9, amended: when Update answers "not found" or a conflict, the call
\* returns that error and ends Failed.
C9_NotFoundReturned ==
    (Ended /\ updateCalls # <<>> /\ updateCalls[1].err \in {"NotFound", "Conflict"})
    => /\ result = updateCalls[1].err
       /\ path[Len(path)] = "Failed"

\* The cluster was deleted after the snapshot was taken; the Update call
\* answered "not found" and the call returned it.
C9_Witness ==
    /\ pc = "returned"
    /\ stored = Nil
    /\ observedState.cluster # Nil
    /\ updateCalls # <<>>
    /\ updateCalls[1].err = "NotFound"
    /\ result = "NotFound"

\* C10: two statuses that agree in State, the three mandatory slots and the
\* job slot and differ in LastUpdateTime are judged unchanged.
C10_TimestampExcluded ==
    (/\ pc = "compared"
     /\ SameButTime(Deref(currentStatus), Deref(newStatus))
     /\ Deref(currentStatus).LastUpdateTime # Deref(newStatus).LastUpdateTime)
    => changed = "false"

\* Two statuses with a job and different timestamps were compared.
C10_Witness ==
    /\ pc = "compared"
    /\ SameButTime(Deref(currentStatus), Deref(newStatus))
    /\ Deref(currentStatus).LastUpdateTime # EmptyTime
    /\ Deref(newStatus).LastUpdateTime # EmptyTime
    /\ Deref(currentStatus).LastUpdateTime # Deref(newStatus).LastUpdateTime
    /\ Deref(currentStatus).Components.Job # Nil
    /\ changed = "false"

\* C11: when the JobManager deployment, the JobManager service or the
\* TaskManager deployment is absent from the snapshot, its slot in the
\* derived status is left unset and the state is Reconciling, whatever the
\* other two are.
C11_AbsenceMonotonic ==
    pc = "derived" =>
      LET st == Deref(newStatus)
      IN  /\ observedState.jmDeployment = Nil =>
               /\ st.Components.JobManagerDeployment = ZeroComponent
               /\ st.State = "Reconciling"
          /\ observedState.jmService = Nil =>
               /\ st.Components.JobManagerService = ZeroComponent
               /\ st.State = "Reconciling"
          /\ observedState.tmDeployment = Nil =>
               /\ st.Components.TaskManagerDeployment = ZeroComponent
               /\ st.State = "Reconciling"

\* A snapshot without the service, its two deployments Ready, was derived.
C11_Witness ==
    /\ pc = "derived"
    /\ observedState.jmService = Nil
    /\ Deref(newStatus).Components.JobManagerService = ZeroComponent
    /\ Deref(newStatus).Components.JobManagerDeployment.State = "Ready"
    /\ Deref(newStatus).Components.TaskManagerDeployment.State = "Ready"
    /\ Deref(newStatus).State = "Reconciling"

\* C12: the state derived for an observed job is Running when it has active
\* pods; otherwise Failed when it has failed pods; otherwise Succeeded when
\* it has succeeded pods; otherwise Unknown.
C12_JobStatePriority ==
    (pc = "derived" /\ observedState.job # Nil) =>
      LET j == Deref(observedState.job)
          js == Deref(newStatus).Components.Job
      IN  /\ js # Nil
          /\ Deref(js).Name = j.Name
          /\ j.Active > 0 => Deref(js).State = "Running"
          /\ (j.Active = 0 /\ j.Failed > 0) => Deref(js).State = "Failed"
          /\ (j.Active = 0 /\ j.Failed = 0 /\ j.Succeeded > 0) =>
               Deref(js).State = "Succeeded"
          /\ (j.Active = 0 /\ j.Failed = 0 /\ j.Succeeded = 0) =>
               Deref(js).State = "Unknown"

\* A job with an active and a failed pod and no succeeded one was derived
\* Running.
C12_Witness ==
    /\ pc = "derived"
    /\ observedState.job # Nil
    /\ Deref(observedState.job).Active = 1
    /\ Deref(observedState.job).Failed = 1
    /\ Deref(observedState.job).Succeeded = 0
    /\ Deref(Deref(newStatus).Components.Job).State = "Running"

\* C14: snapshots that differ only in the job (absent, or present with any
\* counters) are derived the same state and the same three mandatory slots.
C14_JobNotInState ==
    pc = "derived" =>
      \A j \in Pointers(AnyJobs(JobName)) :
        LET other == deriveClusterStatus([observedState EXCEPT !.job = j])
            st == Deref(newStatus)
        IN  /\ other.State = st.State
            /\ other.Components.JobManagerDeployment =
                 st.Components.JobManagerDeployment
            /\ other.Components.JobManagerService =
                 st.Components.JobManagerService
            /\ other.Components.TaskManagerDeployment =
                 st.Components.TaskManagerDeployment

\* A snapshot with a running job, two Ready components and no TaskManager
\* deployment was derived Reconciling.
C14_Witness ==
    /\ pc = "derived"
    /\ observedState.job # Nil
    /\ Deref(Deref(newStatus).Components.Job).State = "Running"
    /\ Deref(newStatus).Components.JobManagerDeployment.State = "Ready"
    /\ Deref(newStatus).Components.JobManagerService.State = "Ready"
    /\ observedState.tmDeployment = Nil
    /\ Deref(newStatus).State = "Reconciling"

\* The deployment has all of its Status.Replicas both available and ready.
AllReplicasUp(d) ==
    d.AvailableReplicas >= d.Replicas /\ d.ReadyReplicas >= d.Replicas

\* C17: the slot of an observed deployment is NotReady when fewer replicas
\* are available, or fewer are ready, than Status.Replicas, and Ready
\* otherwise; the slot of an observed service is Ready; and a component is
\* counted ready exactly when its slot is Ready, the state being Running
\* exactly when the three are counted.
C17_ReplicaReadiness ==
    pc = "derived" =>
      LET st == Deref(newStatus)
          jmUp == /\ observedState.jmDeployment # Nil
                  /\ AllReplicasUp(Deref(observedState.jmDeployment))
          tmUp == /\ observedState.tmDeployment # Nil
                  /\ AllReplicasUp(Deref(observedState.tmDeployment))
      IN  /\ observedState.jmDeployment # Nil =>
               st.Components.JobManagerDeployment =
                 [Name |-> JmDeploymentName,
                  State |-> IF jmUp THEN "Ready" ELSE "NotReady"]
          /\ observedState.tmDeployment # Nil =>
               st.Components.TaskManagerDeployment =
                 [Name |-> TmDeploymentName,
                  State |-> IF tmUp THEN "Ready" ELSE "NotReady"]
          /\ observedState.jmService # Nil =>
               st.Components.JobManagerService =
                 [Name |-> JmServiceName, State |-> "Ready"]
          /\ st.State = "Running" <=>
               (jmUp /\ tmUp /\ observedState.jmService # Nil)

\* A TaskManager deployment with every replica ready but one of them not
\* available was derived NotReady, and the state Reconciling.
C17_Witness ==
    /\ pc = "derived"
    /\ observedState.tmDeployment # Nil
    /\ Deref(observedState.tmDeployment).Replicas = MaxReplicas
    /\ Deref(observedState.tmDeployment).ReadyReplicas = MaxReplicas
    /\ Deref(observedState.tmDeployment).AvailableReplicas = MaxReplicas - 1
    /\ Deref(newStatus).Components.TaskManagerDeployment.State = "NotReady"
    /\ Deref(newStatus).Components.JobManagerDeployment.State = "Ready"
    /\ Deref(newStatus).Components.JobManagerService.State = "Ready"
    /\ Deref(newStatus).State = "Reconciling"

C15_AllOrNothing ==
    [][(pc = "observed" /\ pc' \in {"returned", "panicked"})
       => /\ \/ stored' = stored
             \/ /\ stored # Nil
                /\ stored' # Nil
                /\ \E t \in Times :
                     /\ t # EmptyTime
                     /\ Deref(stored').Status =
                          [deriveClusterStatus(observedState)
                             EXCEPT !.LastUpdateTime = t]
          /\ (updateCalls' = <<>> \/ result' # "nil") => stored' = stored]_vars

\* A status was written over an earlier one: the service slot, which did
\* not change, and the job slot, which did, are both the derived ones.
C15_Witness ==
    /\ pc = "returned"
    /\ result = "nil"
    /\ updateCalls # <<>>
    /\ stored # Nil
    /\ Recorded.LastUpdateTime # EmptyTime
    /\ Deref(stored).Status.LastUpdateTime # EmptyTime
    /\ SameButTime(Deref(stored).Status, deriveClusterStatus(observedState))
    /\ Recorded.Components.JobManagerService.State = "Ready"
    /\ Deref(stored).Status.Components.JobManagerService =
         Recorded.Components.JobManagerService
    /\ Deref(stored).Status.Components.Job # Recorded.Components.Job

\* isStatusChanged was called on currentStatus and newStatus.
Compared == (Ended \/ pc = "compared") /\ currentStatus # Nil

\* C16: isStatusChanged returns true exactly when the two statuses differ
\* in the state, in one of the three mandatory slots (name or state) or in
\* the job slot.
C16_ChangedIffDiffer ==
    Compared =>
      (changed = "true" <=> ~SameButTime(Deref(currentStatus), Deref(newStatus)))

\* The slot is that of an observed deployment that is not ready.
PresentNotReady(slot) == slot.Name # "" /\ slot.State = "NotReady"

\* One of the slots is unset and the other that of a present, not ready
\* component.
AbsentVersusNotReady(a, b) ==
    \/ a = ZeroComponent /\ PresentNotReady(b)
    \/ b = ZeroComponent /\ PresentNotReady(a)

\* C18: the slot derived for an absent component differs from every slot
\* derived for a present one, so that a change between absent and present
\* (not ready), in either direction and all else equal, makes
\* isStatusChanged return true -- for the three mandatory slots and for the
\* job slot.
C18_AbsenceDistinguishable ==
    Compared =>
      LET cur == Deref(currentStatus)
          new == Deref(newStatus)
          cc == cur.Components
          nc == new.Components
      IN  /\ (/\ AbsentVersusNotReady(cc.JobManagerDeployment,
                                      nc.JobManagerDeployment)
              /\ cur.State = new.State
              /\ cc.JobManagerService = nc.JobManagerService
              /\ cc.TaskManagerDeployment = nc.TaskManagerDeployment
              /\ cc.Job = nc.Job) => changed = "true"
          /\ (/\ AbsentVersusNotReady(cc.TaskManagerDeployment,
                                      nc.TaskManagerDeployment)
              /\ cur.State = new.State
              /\ cc.JobManagerDeployment = nc.JobManagerDeployment
              /\ cc.JobManagerService = nc.JobManagerService
              /\ cc.Job = nc.Job) => changed = "true"
          /\ (/\ (cc.JobManagerService = ZeroComponent)
                   # (nc.JobManagerService = ZeroComponent)
              /\ cur.State = new.State
              /\ cc.JobManagerDeployment = nc.JobManagerDeployment
              /\ cc.TaskManagerDeployment = nc.TaskManagerDeployment
              /\ cc.Job = nc.Job) => changed = "true"
          /\ (/\ (cc.Job = Nil) # (nc.Job = Nil)
              /\ OtherFieldsEqual(cur, new)) => changed = "true"

\* C19: a call leaves the snapshot as it was given: the observed cluster,
\* with its recorded status, LastUpdateTime and job entry, and the observed
\* components -- whether it sent nothing, succeeded, failed or panicked.
C19_SnapshotUntouched ==
    [][(pc = "observed" /\ pc' \in {"returned", "panicked"})
       => observedState' = observedState]_vars

\* A call that updated a status recorded earlier, job entry included, has
\* returned: the copy it compared has no time, the snapshot still has it.
C19_Witness ==
    /\ pc = "returned"
    /\ result = "nil"
    /\ updateCalls # <<>>
    /\ Recorded.LastUpdateTime # EmptyTime
    /\ Recorded.Components.Job # Nil
    /\ Deref(currentStatus).LastUpdateTime = EmptyTime
    /\ updateCalls[1].obj.Status # Recorded
    /\ observedState.jmDeployment # Nil

\* The status recorded on the stored cluster is the one derived from the
\* components as they are, but for LastUpdateTime.
Converged ==
    /\ stored # Nil
    /\ SameButTime(Deref(stored).Status,
                   deriveClusterStatus([cluster |-> stored,
                                        jmDeployment |-> components.jmDeployment,
                                        jmService |-> components.jmService,
                                        tmDeployment |-> components.tmDeployment,
                                        job |-> components.job]))

\* The API server has handed out its last resource version: no Update can
\* succeed any more.
VersionsExhausted == stored # Nil /\ Deref(stored).ResourceVersion = MaxVersion

\* C20: with the passes of a cluster serialized, each on a fresh snapshot,
\* and Update calls succeeding in the end, once the components have stopped
\* changing the stored status comes to equal the status derived from them
\* and stays so (unless the cluster is deleted).
C20_Converges == <>[](stored = Nil \/ VersionsExhausted \/ Converged)

====
